---- MODULE Spec2Model ----
(***************************************************************************)
(* A model of utils/generate_grammar_tables.py: the generator that turns   *)
(* the SPIR-V JSON grammar into the C tables of SPIRV-Tools.               *)
(*                                                                         *)
(* Strings of the program are sequences of one-character strings, so that  *)
(* concatenation, comparison, replacement and case conversion are computed *)
(* character by character as the Python code computes them.  A value that  *)
(* may be None is a sequence of length 0 (None) or 1 (the value).          *)
(***************************************************************************)
EXTENDS Integers, Sequences, FiniteSets, TLC

VARIABLES
  pc,          \* what has run: the position of the driver
  caps,        \* the argument of generate_capability_arrays
  exts,        \* the argument of generate_extension_arrays
  arrays,      \* the arrays the pool emitted
  refs,        \* the reference each call site received for its sequence
  inst_table,  \* the argument of generate_instruction_table
  core_insts,  \* the instruction table it returned
  operand_kinds,   \* the operand kinds of the grammar, rewritten in place
  loaded_kinds,    \* the operand kinds as they were loaded
  preconditioned,  \* whether precondition_operand_kinds has run
  kind_table,      \* the operand-kind table generate_operand_kind_table returned
  args,            \* main: the designators given on the command line
  instructions,    \* main: the instructions of the merged grammar
  extensions,      \* main: the list get_extension_list returned
  files,           \* main: what has happened to each output file
  contents,        \* main: what was written to the other output files
  operand_tuple,   \* the argument of convert_operand_kind
  operand_type     \* the identifier convert_operand_kind returned

vars ==
  <<pc, caps, exts, arrays, refs, inst_table, core_insts, operand_kinds,
    loaded_kinds, preconditioned, kind_table, args, instructions,
    extensions, files, contents, operand_tuple, operand_type>>

\* ------------------------------------------------------------------ bounds

\* Longest list of capability (extension) sequences handed to the pool.
MaxSeqs == 2
\* Longest capability (extension) sequence.
MaxNames == 2
\* Longest instruction table whose order is exercised.
MaxInsts == 3
\* Longest operand list of an instruction whose descriptor is exercised.
MaxOperands == 2
\* Most enumerants of the operand kind whose aliases are exercised.
MaxEnumerants == 3
\* Longest list of operand kinds whose table is exercised.
MaxKinds == 4
\* Longest extension list of the instruction and of the enumerant whose
\* extensions are collected.
MaxExtNames == 2

\* ----------------------------------------------------------------- strings

None == <<>>

Some(x) == <<x>>

\* The characters the model uses, in code-point order (Python compares
\* strings by code point).
Alphabet ==
  << " ", "(", ")", "*", ",", ".",
     "0", "1", "2", "3", "4", "5", "6", "7", "8", "9", "?",
     "A", "B", "C", "D", "E", "F", "G", "H", "I", "J", "K", "L", "M",
     "N", "O", "P", "Q", "R", "S", "T", "U", "V", "W", "X", "Y", "Z",
     "_",
     "a", "b", "c", "d", "e", "f", "g", "h", "i", "j", "k", "l", "m",
     "n", "o", "p", "q", "r", "s", "t", "u", "v", "w", "x", "y", "z" >>

Chars == {Alphabet[i] : i \in DOMAIN Alphabet}

Ord == [c \in Chars |-> CHOOSE i \in DOMAIN Alphabet : Alphabet[i] = c]

\* s < t for two strings, as Python's str.__lt__.
RECURSIVE StrLess(_, _)
StrLess(s, t) ==
  IF t = <<>> THEN FALSE
  ELSE IF s = <<>> THEN TRUE
  ELSE IF Head(s) = Head(t) THEN StrLess(Tail(s), Tail(t))
  ELSE Ord[Head(s)] < Ord[Head(t)]

\* s < t for two tuples (or lists) of strings, as Python's tuple.__lt__.
RECURSIVE TupleLess(_, _)
TupleLess(s, t) ==
  IF t = <<>> THEN FALSE
  ELSE IF s = <<>> THEN TRUE
  ELSE IF Head(s) = Head(t) THEN TupleLess(Tail(s), Tail(t))
  ELSE StrLess(Head(s), Head(t))

\* ''.join(strs)
RECURSIVE Join(_)
Join(strs) == IF strs = <<>> THEN <<>> ELSE Head(strs) \o Join(Tail(strs))

\* [f(x) for x in s]
Map(f(_), s) == [i \in DOMAIN s |-> f(s[i])]

\* [x for x in s if p(x)]
RECURSIVE Filter(_, _)
Filter(p(_), s) ==
  IF s = <<>> THEN <<>>
  ELSE IF p(Head(s)) THEN <<Head(s)>> \o Filter(p, Tail(s))
  ELSE Filter(p, Tail(s))

Range(s) == {s[i] : i \in DOMAIN s}

\* sorted(S) for a set S of tuples of strings: the elements of S, ascending.
RECURSIVE SortedTuples(_)
SortedTuples(S) ==
  IF S = {} THEN <<>>
  ELSE LET m == CHOOSE x \in S : \A y \in S \ {x} : TupleLess(x, y)
       IN <<m>> \o SortedTuples(S \ {m})

\* Every sequence over S of length at most n.
SeqsUpTo(S, n) == UNION {[1..k -> S] : k \in 0..n}

\* ------------------------------------------------- capability/extension pool

PYGEN_VARIABLE_PREFIX ==
  <<"p", "y", "g", "e", "n", "_", "v", "a", "r", "i", "a", "b", "l", "e">>

nullptr == <<"n", "u", "l", "l", "p", "t", "r">>

\* The body of a braced initializer list: the members in order.  (The fixed
\* 'SpvCapability' / 'spvtools::Extension::k' prefixes of the members are
\* implied by the kind of the array.)
compose_capability_list(c) == c

get_capability_array_name(c) ==
  IF c = <<>> THEN nullptr
  ELSE PYGEN_VARIABLE_PREFIX \o <<"_", "c", "a", "p", "s", "_">> \o Join(c)

\* The distinct sequences of cs, the empty one included.
DistinctKeepEmpty(cs) == Range(cs)

\* set([tuple(c) for c in caps if c])
DistinctNonEmpty(cs) == {cs[i] : i \in {j \in DOMAIN cs : cs[j] # <<>>}}

generate_capability_arrays(cs) ==
  LET sorted == SortedTuples(DistinctNonEmpty(cs))
  IN [i \in DOMAIN sorted |->
        [type |-> "SpvCapability",
         name |-> get_capability_array_name(sorted[i]),
         elems |-> compose_capability_list(sorted[i])]]

compose_extension_list(e) == e

get_extension_array_name(e) ==
  IF e = <<>> THEN nullptr
  ELSE PYGEN_VARIABLE_PREFIX \o <<"_", "e", "x", "t", "s", "_">> \o Join(e)

generate_extension_arrays(es) ==
  LET sorted == SortedTuples(DistinctNonEmpty(es))
  IN [i \in DOMAIN sorted |->
        [type |-> "spvtools::Extension",
         name |-> get_extension_array_name(sorted[i]),
         elems |-> compose_extension_list(sorted[i])]]

\* ------------------------------------------------------ operand kinds

\* The if/elif chain of convert_operand_kind, in its order: a kind that is
\* the first member of a pair is renamed to the second.
RenameTable ==
  << << \* IdResultType -> TypeId
        <<"I", "d", "R", "e", "s", "u", "l", "t", "T", "y", "p", "e">>,
        <<"T", "y", "p", "e", "I", "d">> >>,
     << \* IdResult -> ResultId
        <<"I", "d", "R", "e", "s", "u", "l", "t">>,
        <<"R", "e", "s", "u", "l", "t", "I", "d">> >>,
     << \* IdMemorySemantics -> MemorySemanticsId
        <<"I", "d", "M", "e", "m", "o", "r", "y", "S", "e", "m", "a", "n",
        "t", "i", "c", "s">>,
        <<"M", "e", "m", "o", "r", "y", "S", "e", "m", "a", "n", "t", "i",
        "c", "s", "I", "d">> >>,
     << \* MemorySemantics -> MemorySemanticsId
        <<"M", "e", "m", "o", "r", "y", "S", "e", "m", "a", "n", "t", "i",
        "c", "s">>,
        <<"M", "e", "m", "o", "r", "y", "S", "e", "m", "a", "n", "t", "i",
        "c", "s", "I", "d">> >>,
     << \* IdScope -> ScopeId
        <<"I", "d", "S", "c", "o", "p", "e">>,
        <<"S", "c", "o", "p", "e", "I", "d">> >>,
     << \* Scope -> ScopeId
        <<"S", "c", "o", "p", "e">>,
        <<"S", "c", "o", "p", "e", "I", "d">> >>,
     << \* IdRef -> Id
        <<"I", "d", "R", "e", "f">>,
        <<"I", "d">> >>,
     << \* ImageOperands -> Image
        <<"I", "m", "a", "g", "e", "O", "p", "e", "r", "a", "n", "d", "s">>,
        <<"I", "m", "a", "g", "e">> >>,
     << \* Dim -> Dimensionality
        <<"D", "i", "m">>,
        <<"D", "i", "m", "e", "n", "s", "i", "o", "n", "a", "l", "i", "t",
        "y">> >>,
     << \* ImageFormat -> SamplerImageFormat
        <<"I", "m", "a", "g", "e", "F", "o", "r", "m", "a", "t">>,
        <<"S", "a", "m", "p", "l", "e", "r", "I", "m", "a", "g", "e", "F",
        "o", "r", "m", "a", "t">> >>,
     << \* KernelEnqueueFlags -> KernelEnqFlags
        <<"K", "e", "r", "n", "e", "l", "E", "n", "q", "u", "e", "u", "e",
        "F", "l", "a", "g", "s">>,
        <<"K", "e", "r", "n", "e", "l", "E", "n", "q", "F", "l", "a", "g",
        "s">> >>,
     << \* LiteralExtInstInteger -> ExtensionInstructionNumber
        <<"L", "i", "t", "e", "r", "a", "l", "E", "x", "t", "I", "n", "s",
        "t", "I", "n", "t", "e", "g", "e", "r">>,
        <<"E", "x", "t", "e", "n", "s", "i", "o", "n", "I", "n", "s", "t",
        "r", "u", "c", "t", "i", "o", "n", "N", "u", "m", "b", "e", "r">> >>,
     << \* LiteralSpecConstantOpInteger -> SpecConstantOpNumber
        <<"L", "i", "t", "e", "r", "a", "l", "S", "p", "e", "c", "C", "o",
        "n", "s", "t", "a", "n", "t", "O", "p", "I", "n", "t", "e", "g", "e",
        "r">>,
        <<"S", "p", "e", "c", "C", "o", "n", "s", "t", "a", "n", "t", "O",
        "p", "N", "u", "m", "b", "e", "r">> >>,
     << \* LiteralContextDependentNumber -> TypedLiteralNumber
        <<"L", "i", "t", "e", "r", "a", "l", "C", "o", "n", "t", "e", "x",
        "t", "D", "e", "p", "e", "n", "d", "e", "n", "t", "N", "u", "m", "b",
        "e", "r">>,
        <<"T", "y", "p", "e", "d", "L", "i", "t", "e", "r", "a", "l", "N",
        "u", "m", "b", "e", "r">> >>,
     << \* PairLiteralIntegerIdRef -> LiteralIntegerId
        <<"P", "a", "i", "r", "L", "i", "t", "e", "r", "a", "l", "I", "n",
        "t", "e", "g", "e", "r", "I", "d", "R", "e", "f">>,
        <<"L", "i", "t", "e", "r", "a", "l", "I", "n", "t", "e", "g", "e",
        "r", "I", "d">> >>,
     << \* PairIdRefLiteralInteger -> IdLiteralInteger
        <<"P", "a", "i", "r", "I", "d", "R", "e", "f", "L", "i", "t", "e",
        "r", "a", "l", "I", "n", "t", "e", "g", "e", "r">>,
        <<"I", "d", "L", "i", "t", "e", "r", "a", "l", "I", "n", "t", "e",
        "g", "e", "r">> >>,
     << \* PairIdRefIdRef -> Id
        <<"P", "a", "i", "r", "I", "d", "R", "e", "f", "I", "d", "R", "e",
        "f">>,
        <<"I", "d">> >> >>

\* The kind after the first if/elif chain: the first matching rule applies.
RECURSIVE RenameFrom(_, _)
RenameFrom(kind, i) ==
  IF i > Len(RenameTable) THEN kind
  ELSE IF kind = RenameTable[i][1] THEN RenameTable[i][2]
  ELSE RenameFrom(kind, i + 1)

\* The kind as it is, without the second chain.
KeepFP(kind) == kind

\* The second chain: FPRoundingMode -> FpRoundingMode,
\* FPFastMathMode -> FpFastMathMode.
RenameFP(kind) ==
  IF kind = <<"F", "P", "R", "o", "u", "n", "d", "i", "n", "g", "M", "o",
            "d", "e">>
  THEN <<"F", "p", "R", "o", "u", "n", "d", "i", "n", "g", "M", "o", "d",
       "e">>
  ELSE IF kind = <<"F", "P", "F", "a", "s", "t", "M", "a", "t", "h", "M",
                 "o", "d", "e">>
  THEN <<"F", "p", "F", "a", "s", "t", "M", "a", "t", "h", "M", "o", "d",
       "e">>
  ELSE kind

Lowers ==
  << "a", "b", "c", "d", "e", "f", "g", "h", "i", "j", "k", "l", "m",
     "n", "o", "p", "q", "r", "s", "t", "u", "v", "w", "x", "y", "z" >>

Uppers ==
  << "A", "B", "C", "D", "E", "F", "G", "H", "I", "J", "K", "L", "M",
     "N", "O", "P", "Q", "R", "S", "T", "U", "V", "W", "X", "Y", "Z" >>

IsLower(c) == \E i \in DOMAIN Lowers : Lowers[i] = c

IsUpper(c) == \E i \in DOMAIN Uppers : Uppers[i] = c

\* str.upper(), one character.
UpperChar(c) ==
  IF IsLower(c) THEN Uppers[CHOOSE i \in DOMAIN Lowers : Lowers[i] = c] ELSE c

\* re.sub(r'([a-z])([A-Z])', r'\1_\2', s): the matches are found left to
\* right and do not overlap.
RECURSIVE InsertSeparators(_)
InsertSeparators(s) ==
  IF Len(s) < 2 THEN s
  ELSE IF IsLower(s[1]) /\ IsUpper(s[2])
       THEN <<s[1], "_", s[2]>> \o InsertSeparators(SubSeq(s, 3, Len(s)))
       ELSE <<s[1]>> \o InsertSeparators(Tail(s))

\* The quantifiers of the grammar: '', '?' and '*'.
Mandatory == <<>>

OptionalQ == <<"?">>

Variadic == <<"*">>

\* convert_operand_kind((kind, quantifier))
convert_operand_kind(kind, quantifier) ==
  LET renamed == RenameFP(RenameFrom(kind, 1))
      marked ==
        IF quantifier = OptionalQ
        THEN <<"O", "p", "t", "i", "o", "n", "a", "l">> \o renamed
        ELSE IF quantifier = Variadic
        THEN <<"V", "a", "r", "i", "a", "b", "l", "e">> \o renamed
        ELSE renamed
  IN <<"S", "P", "V", "_", "O", "P", "E", "R", "A", "N", "D", "_", "T", "Y",
     "P", "E", "_">>
     \o Map(UpperChar, InsertSeparators(marked))

\* ------------------------------------------------------------ versions

\* The version with its dots kept.
KeepDots(version) == version

\* version.replace('.', ',')
ReplaceDots(version) ==
  [i \in DOMAIN version |-> IF version[i] = "." THEN "," ELSE version[i]]

VersionWordOpen ==
  <<"S", "P", "V", "_", "S", "P", "I", "R", "V", "_", "V", "E", "R", "S",
  "I", "O", "N", "_", "W", "O", "R", "D", "(">>

\* 'SPV_SPIRV_VERSION_WORD(1, 0)'
VersionWord_1_0 == VersionWordOpen \o <<"1", ",", " ", "0", ")">>

\* '0xffffffffu'
AllOnes == <<"0", "x", "f", "f", "f", "f", "f", "f", "f", "f", "u">>

\* The string 'None' of the grammar: never promoted to core.
NoneLiteral == <<"N", "o", "n", "e">>

\* version is None (<<>>) or the string (<<string>>).
convert_min_required_version(version) ==
  IF version = None THEN VersionWord_1_0
  ELSE IF version[1] = NoneLiteral THEN AllOnes
  ELSE VersionWordOpen \o ReplaceDots(version[1]) \o <<")">>

convert_max_required_version(version) ==
  IF version = None THEN AllOnes
  ELSE VersionWordOpen \o ReplaceDots(version[1]) \o <<")">>

\* --------------------------------------------------------- instructions

\* An instruction of the grammar is a record
\*   [opname, opcode, capabilities, extensions, operands, version, lastVersion]
\* where opname, version and lastVersion are None or a string, the lists
\* are empty when the grammar does not give them, and an operand is
\* [kind, quantifier].

Op == <<"O", "p">>

ExtInst == <<"E", "x", "t", "I", "n", "s", "t">>

VARIABLE_ID ==
  <<"S", "P", "V", "_", "O", "P", "E", "R", "A", "N", "D", "_", "T", "Y",
  "P", "E", "_", "V", "A", "R", "I", "A", "B", "L", "E", "_", "I", "D">>

IdResultType == <<"I", "d", "R", "e", "s", "u", "l", "t", "T", "y", "p", "e">>

IdResult == <<"I", "d", "R", "e", "s", "u", "l", "t">>

startswith(s, prefix) ==
  Len(s) >= Len(prefix) /\ SubSeq(s, 1, Len(prefix)) = prefix

\* InstInitializer.fix_syntax on (self.opname, self.operands): the operand
\* list after the fix, or a failure (self.operands[-1] of an empty list
\* raises IndexError).
fix_syntax(opname, operands) ==
  IF opname # ExtInst THEN [ok |-> TRUE, operands |-> operands]
  ELSE IF operands = <<>> THEN [ok |-> FALSE, operands |-> operands]
  ELSE IF operands[Len(operands)] = VARIABLE_ID
       THEN [ok |-> TRUE, operands |-> SubSeq(operands, 1, Len(operands) - 1)]
       ELSE [ok |-> TRUE, operands |-> operands]

NoDesc == [ok |-> FALSE]

\* InstInitializer.__init__ and __str__: the descriptor of one instruction,
\* or a failure (the assert on the 'Op' prefix, fix_syntax).
InstInitializer(opname, cs, es, operands, version, lastVersion) ==
  LET converted ==
        [i \in DOMAIN operands |->
           convert_operand_kind(operands[i].kind, operands[i].quantifier)]
      fixed == fix_syntax(SubSeq(opname, 3, Len(opname)), converted)
  IN IF ~startswith(opname, Op) \/ ~fixed.ok THEN NoDesc
     ELSE [ok |-> TRUE,
           opname |-> SubSeq(opname, 3, Len(opname)),
           num_caps |-> Len(cs),
           caps_mask |-> get_capability_array_name(cs),
           num_operands |-> Len(fixed.operands),
           operands |-> fixed.operands,
           def_result_id |->
             IF \E i \in DOMAIN operands : operands[i].kind = IdResult
             THEN 1 ELSE 0,
           ref_type_id |->
             IF \E i \in DOMAIN operands : operands[i].kind = IdResultType
             THEN 1 ELSE 0,
           num_exts |-> Len(es),
           exts |-> get_extension_array_name(es),
           min_version |-> convert_min_required_version(version),
           max_version |-> convert_max_required_version(lastVersion)]

\* generate_instruction(inst, False)
generate_instruction(inst) ==
  IF inst.opname = None THEN NoDesc
  ELSE InstInitializer(inst.opname[1], inst.capabilities, inst.extensions,
                       inst.operands, inst.version, inst.lastVersion)

\* a < b by the key k['opcode'] alone.
InstKeyLessOpcodeOnly(a, b) == a.opcode < b.opcode

\* a < b by the key (k['opcode'], k['opname']).
InstKeyLess(a, b) ==
  \/ a.opcode < b.opcode
  \/ a.opcode = b.opcode /\ StrLess(a.opname[1], b.opname[1])

\* x put into the sorted list s after every member that is not greater.
RECURSIVE InsertStable(_, _, _)
InsertStable(Less(_, _), x, s) ==
  IF s = <<>> THEN <<x>>
  ELSE IF Less(x, Head(s)) THEN <<x>> \o s
  ELSE <<Head(s)>> \o InsertStable(Less, x, Tail(s))

\* sorted(s, key=...): Python's sort is stable.
RECURSIVE SortedStable(_, _)
SortedStable(Less(_, _), s) ==
  IF s = <<>> THEN <<>>
  ELSE InsertStable(Less, s[Len(s)],
                    SortedStable(Less, SubSeq(s, 1, Len(s) - 1)))

NoTable ==
  [ok |-> FALSE, caps_arrays |-> <<>>, exts_arrays |-> <<>>, insts |-> <<>>]

\* generate_instruction_table(inst_table): the capability arrays, the
\* extension arrays and the descriptors in sorted order, or a failure (the
\* sort key of an instruction without a name, a descriptor that fails).
generate_instruction_table(tbl) ==
  IF \E i \in DOMAIN tbl : tbl[i].opname = None THEN NoTable
  ELSE LET sorted == SortedStable(InstKeyLess, tbl)
           insts == [i \in DOMAIN sorted |-> generate_instruction(sorted[i])]
       IN IF \E i \in DOMAIN insts : ~insts[i].ok THEN NoTable
          ELSE [ok |-> TRUE,
                caps_arrays |->
                  generate_capability_arrays(
                    [i \in DOMAIN sorted |-> sorted[i].capabilities]),
                exts_arrays |->
                  generate_extension_arrays(
                    [i \in DOMAIN sorted |-> sorted[i].extensions]),
                insts |-> insts]

\* --------------------------------------------------- enumerated operands

\* An operand kind of the grammar is a record [kind, category, enumerants]
\* and an enumerant a record
\*   [enumerant, value, capabilities, extensions, parameters, version,
\*    lastVersion]
\* where kind, enumerant, value, version and lastVersion are None or the
\* value.  A value is the integer of a ValueEnum or the hexadecimal string
\* of a BitEnum, as json.loads gives them.

IntVal(n) == [int |-> TRUE, n |-> n, s |-> <<>>]

StrVal(s) == [int |-> FALSE, n |-> 0, s |-> s]

Digits == <<"0", "1", "2", "3", "4", "5", "6", "7", "8", "9">>

\* str(n) for an integer n >= 0.
RECURSIVE DecStr(_)
DecStr(n) ==
  IF n < 10 THEN <<Digits[n + 1]>>
  ELSE DecStr(n \div 10) \o <<Digits[(n % 10) + 1]>>

\* str(value) for a value that may be None.
str(value) ==
  IF value = None THEN <<"N", "o", "n", "e">>
  ELSE IF value[1].int THEN DecStr(value[1].n)
  ELSE value[1].s

HexLower == Digits \o <<"a", "b", "c", "d", "e", "f">>

HexUpper == Digits \o <<"A", "B", "C", "D", "E", "F">>

IsHexDigit(c) ==
  \E i \in 1..16 : HexLower[i] = c \/ HexUpper[i] = c

HexDigitValue(c) ==
  (CHOOSE i \in 1..16 : HexLower[i] = c \/ HexUpper[i] = c) - 1

RECURSIVE HexDigitsValue(_)
HexDigitsValue(ds) ==
  IF ds = <<>> THEN 0
  ELSE 16 * HexDigitsValue(SubSeq(ds, 1, Len(ds) - 1))
         + HexDigitValue(ds[Len(ds)])

\* int(s, 16) for a string s of hexadecimal digits with or without the
\* prefix '0x': the integer, or -1 where Python raises ValueError.
int16(s) ==
  LET ds == IF Len(s) >= 2 /\ s[1] = "0" /\ s[2] \in {"x", "X"}
            THEN SubSeq(s, 3, Len(s)) ELSE s
  IN IF ds = <<>> \/ \E i \in DOMAIN ds : ~IsHexDigit(ds[i]) THEN -1
     ELSE HexDigitsValue(ds)

\* The strings of S in descending order.
RECURSIVE DescendingStrs(_)
DescendingStrs(S) ==
  IF S = {} THEN <<>>
  ELSE LET m == CHOOSE x \in S : \A y \in S \ {x} : StrLess(y, x)
       IN <<m>> \o DescendingStrs(S \ {m})

\* sorted(S) for a set S of strings.
RECURSIVE SortedStrs(_)
SortedStrs(S) ==
  IF S = {} THEN <<>>
  ELSE LET m == CHOOSE x \in S : \A y \in S \ {x} : StrLess(x, y)
       IN <<m>> \o SortedStrs(S \ {m})

\* s without the members that occur earlier in it.
RECURSIVE Dedup(_)
Dedup(s) ==
  IF s = <<>> THEN <<>>
  ELSE LET front == Dedup(SubSeq(s, 1, Len(s) - 1))
       IN IF s[Len(s)] \in Range(front) THEN front
          ELSE Append(front, s[Len(s)])

\* sum(lists, [])
RECURSIVE Concat(_)
Concat(lists) ==
  IF lists = <<>> THEN <<>> ELSE Head(lists) \o Concat(Tail(lists))

\* Every enumerant of every operand kind, with the kind it belongs to, in
\* the order of the two nested loops of precondition_operand_kinds.
KindEnumerants(kinds) ==
  Concat([i \in DOMAIN kinds |->
            [j \in DOMAIN kinds[i].enumerants |->
               [kind |-> kinds[i].kind, entry |-> kinds[i].enumerants[j]]]])

\* key = kind + '.' + str(value)
MergeKey(kind, value) == kind[1] \o <<".">> \o str(value)

\* The dict exts of precondition_operand_kinds after the first n enumerants.
RECURSIVE MergedExtsAfter(_, _)
MergedExtsAfter(flat, n) ==
  IF n = 0 THEN [k \in {} |-> <<>>]
  ELSE LET m == MergedExtsAfter(flat, n - 1)
           key == MergeKey(flat[n].kind, flat[n].entry.value)
           cur == IF key \in DOMAIN m
                  THEN m[key] \o flat[n].entry.extensions
                  ELSE flat[n].entry.extensions
       IN [k \in DOMAIN m \cup {key} |->
             IF k = key THEN SortedStrs(Range(cur)) ELSE m[k]]

\* precondition_operand_kinds(operand_kinds): the operand kinds with the
\* extension lists rewritten, or a failure (None + '.' raises TypeError for
\* a kind without a name that has an enumerant).
precondition_operand_kinds(kinds) ==
  LET flat == KindEnumerants(kinds)
      merged == MergedExtsAfter(flat, Len(flat))
      Rewritten(kind, entry) ==
        IF Len(merged[MergeKey(kind, entry.value)]) > 0
        THEN [entry EXCEPT !.extensions = merged[MergeKey(kind, entry.value)]]
        ELSE entry
  IN IF \E i \in DOMAIN flat : flat[i].kind = None
     THEN [ok |-> FALSE, kinds |-> kinds]
     ELSE [ok |-> TRUE,
           kinds |->
             [i \in DOMAIN kinds |->
                [kind |-> kinds[i].kind,
                 category |-> kinds[i].category,
                 enumerants |->
                   [j \in DOMAIN kinds[i].enumerants |->
                      Rewritten(kinds[i].kind, kinds[i].enumerants[j])]]]]

\* The sort key of generate_enum_operand_kind: k['value'] for a ValueEnum,
\* int(k['value'], 16) otherwise; -1 where the key cannot be computed (the
\* value is missing, or is not a hexadecimal string).
EnumKey(category, entry) ==
  IF entry.value = None THEN -1
  ELSE IF category = "ValueEnum"
       THEN (IF entry.value[1].int THEN entry.value[1].n ELSE -1)
       ELSE (IF entry.value[1].int THEN -1 ELSE int16(entry.value[1].s))

\* An extension_map without keys.
NoMapValues(entries) == <<>>

\* The values of the entries, each once, in the order of first occurrence:
\* the keys of extension_map.
MapValues(entries) == Dedup([i \in DOMAIN entries |-> entries[i].value])

\* extension_map[value]: the extensions of the entries with this value, each
\* once, in the order of first occurrence.
ExtensionMapAt(entries, value) ==
  Dedup(Concat([i \in DOMAIN entries |->
                  IF entries[i].value = value
                  THEN entries[i].extensions ELSE <<>>]))

\* EnumerantInitializer.__init__ and __str__
EnumerantInitializer(enumerant, value, cs, es, parameters, version, lastVersion) ==
  [enumerant |-> enumerant,
   value |-> str(Some(value)),
   num_caps |-> Len(cs),
   caps |-> get_capability_array_name(cs),
   num_exts |-> Len(es),
   exts |-> get_extension_array_name(es),
   parameters |->
     [i \in DOMAIN parameters |->
        convert_operand_kind(parameters[i].kind, Mandatory)],
   min_version |-> convert_min_required_version(version),
   max_version |-> convert_max_required_version(lastVersion)]

\* generate_enum_operand_kind_entry(entry, extension_map), for an entry
\* that has a name and a value.
generate_enum_operand_kind_entry(entry, entries) ==
  EnumerantInitializer(entry.enumerant[1], entry.value[1],
                       entry.capabilities,
                       ExtensionMapAt(entries, entry.value),
                       entry.parameters, entry.version, entry.lastVersion)

\* No entry sorts before another: the declaration order is kept.
EnumKeyNeverLess(category, a, b) == FALSE

EnumKeyLess(category, a, b) == EnumKey(category, a) < EnumKey(category, b)

EntriesName(kind) ==
  PYGEN_VARIABLE_PREFIX \o <<"_">> \o kind
    \o <<"E", "n", "t", "r", "i", "e", "s">>

NoEnum == [ok |-> FALSE]

\* generate_enum_operand_kind(enum, synthetic_exts_list): the kind, the name
\* of its array, the definition of the array, and the extension lists it
\* appends to synthetic_exts_list; or a failure (a missing kind name, a sort
\* key that cannot be computed, an entry without a name).
generate_enum_operand_kind(enum) ==
  LET Less(a, b) == EnumKeyLess(enum.category, a, b)
      entries == SortedStable(Less, enum.enumerants)
      values == MapValues(entries)
  IN IF \/ enum.kind = None
        \/ \E i \in DOMAIN entries : EnumKey(enum.category, entries[i]) < 0
        \/ \E i \in DOMAIN entries : entries[i].enumerant = None
     THEN NoEnum
     ELSE [ok |-> TRUE,
           kind |-> enum.kind[1],
           name |-> EntriesName(enum.kind[1]),
           entries |->
             [i \in DOMAIN entries |->
                generate_enum_operand_kind_entry(entries[i], entries)],
           synthetic_exts |->
             [i \in DOMAIN values |-> ExtensionMapAt(entries, values[i])]]

\* ['ImageOperands', 'AccessQualifier', 'MemoryAccess']
three_optional_enums ==
  { <<"I", "m", "a", "g", "e", "O", "p", "e", "r", "a", "n", "d", "s">>,
    <<"A", "c", "c", "e", "s", "s", "Q", "u", "a", "l", "i", "f", "i", "e", "r">>,
    <<"M", "e", "m", "o", "r", "y", "A", "c", "c", "e", "s", "s">> }

\* All of s, nothing dropped.
DropNothing(s) == s

\* enum_entries[:-3]: all but the last three.
AllButLastThree(s) == SubSeq(s, 1, Len(s) - 3)

\* [''] * (n - 3) + ['?'] * 3
EnumQuantifiers(n) ==
  [i \in 1..(IF n > 3 THEN n ELSE 3) |->
     IF i <= n - 3 THEN Mandatory ELSE OptionalQ]

NoKindTable ==
  [ok |-> FALSE, caps_arrays |-> <<>>, exts_arrays |-> <<>>,
   enum_entries |-> <<>>, table |-> <<>>]

IsEnumKind(e) == e.category \in {"ValueEnum", "BitEnum"}

\* generate_operand_kind_table(enums): the capability arrays, the extension
\* arrays, the definitions of the enumerant arrays and the rows of the
\* operand-kind table; or a failure (an operand kind that fails, or no
\* operand kind at all: zip(*[]) cannot be unpacked).
generate_operand_kind_table(kinds) ==
  LET enums == Filter(IsEnumKind, kinds)
      flat == KindEnumerants(enums)
      rendered == [i \in DOMAIN enums |-> generate_enum_operand_kind(enums[i])]
  IN IF rendered = <<>> \/ \E i \in DOMAIN rendered : ~rendered[i].ok
     THEN NoKindTable
     ELSE LET IsOptional(e) == e.kind \in three_optional_enums
              all == rendered \o Filter(IsOptional, rendered)
              quantifiers == EnumQuantifiers(Len(all))
              defined == AllButLastThree(all)
          IN [ok |-> TRUE,
              caps_arrays |->
                generate_capability_arrays(
                  [i \in DOMAIN flat |-> flat[i].entry.capabilities]),
              exts_arrays |->
                generate_extension_arrays(
                  [i \in DOMAIN flat |-> flat[i].entry.extensions]
                    \o Concat([i \in DOMAIN rendered |->
                                 rendered[i].synthetic_exts])),
              enum_entries |->
                [i \in DOMAIN defined |->
                   [name |-> defined[i].name, entries |-> defined[i].entries]],
              table |->
                [i \in DOMAIN all |->
                   [kind |-> convert_operand_kind(all[i].kind, quantifiers[i]),
                    size |-> all[i].name,
                    entries |-> all[i].name]]]

\* -------------------------------------------------- extended instructions

NONE ==
  <<"S", "P", "V", "_", "O", "P", "E", "R", "A", "N", "D", "_", "T", "Y", "P", "E", "_", "N", "O", "N", "E">>

\* ExtInstInitializer.__init__ and __str__
ExtInstInitializer(opname, opcode, cs, operands) ==
  [ok |-> TRUE,
   opname |-> opname,
   opcode |-> opcode,
   num_caps |-> Len(cs),
   caps_mask |-> get_capability_array_name(cs),
   operands |->
     [i \in DOMAIN operands |->
        convert_operand_kind(operands[i].kind, operands[i].quantifier)]
       \o <<NONE>>]

\* generate_instruction(inst, True)
generate_ext_instruction(inst) ==
  IF inst.opname = None THEN NoDesc
  ELSE ExtInstInitializer(inst.opname[1], inst.opcode, inst.capabilities,
                          inst.operands)

\* A grammar is a record [instructions, operand_kinds].

\* The dict old_to_new of prefix_operand_kind_names as the set of its keys.
DeclaredKinds(grammar) ==
  {grammar.operand_kinds[i].kind[1] : i \in DOMAIN grammar.operand_kinds}

\* prefix_operand_kind_names(prefix, json_dict): the grammar with its
\* operand kinds and the operands of its instructions renamed, or a failure
\* (an operand kind without the key 'kind').
prefix_operand_kind_names(prefix, grammar) ==
  IF \E i \in DOMAIN grammar.operand_kinds :
       grammar.operand_kinds[i].kind = None
  THEN [ok |-> FALSE, grammar |-> grammar]
  ELSE LET Renamed(operand) ==
             IF operand.kind \in DeclaredKinds(grammar)
             THEN [operand EXCEPT !.kind = prefix \o operand.kind]
             ELSE operand
       IN [ok |-> TRUE,
           grammar |->
             [instructions |->
                [i \in DOMAIN grammar.instructions |->
                   [grammar.instructions[i] EXCEPT
                      !.operands = Map(Renamed, grammar.instructions[i].operands)]],
              operand_kinds |->
                [i \in DOMAIN grammar.operand_kinds |->
                   [grammar.operand_kinds[i] EXCEPT
                      !.kind = Some(prefix \o grammar.operand_kinds[i].kind[1])]]]]

OpcodeLess(a, b) == a.opcode < b.opcode

NoExtTable == [ok |-> FALSE, caps_arrays |-> <<>>, insts |-> <<>>]

\* generate_extended_instruction_table(json_grammar, set_name, prefix), where
\* prefix is None or the prefix: the capability arrays and the descriptors
\* in the order of the opcodes, or a failure.
generate_extended_instruction_table(json_grammar, prefix) ==
  LET prefixed == IF prefix = None \/ prefix = Some(<<>>)
                  THEN [ok |-> TRUE, grammar |-> json_grammar]
                  ELSE prefix_operand_kind_names(prefix[1], json_grammar)
      sorted == SortedStable(OpcodeLess, prefixed.grammar.instructions)
      insts == [i \in DOMAIN sorted |-> generate_ext_instruction(sorted[i])]
  IN IF ~prefixed.ok \/ \E i \in DOMAIN insts : ~insts[i].ok THEN NoExtTable
     ELSE [ok |-> TRUE,
           caps_arrays |->
             generate_capability_arrays(
               [i \in DOMAIN sorted |-> sorted[i].capabilities]),
           insts |-> insts]

\* ------------------------------------------------------- extension registry

\* EXTENSIONS_FROM_SPIRV_REGISTRY_AND_NOT_FROM_GRAMMARS.split()
EXTENSIONS_FROM_SPIRV_REGISTRY_AND_NOT_FROM_GRAMMARS ==
  << <<"S", "P", "V", "_", "A", "M", "D", "_", "g", "c", "n", "_", "s", "h", "a", "d", "e", "r">>,
     <<"S", "P", "V", "_", "A", "M", "D", "_", "g", "p", "u", "_", "s", "h", "a", "d", "e", "r", "_",
        "h", "a", "l", "f", "_", "f", "l", "o", "a", "t">>,
     <<"S", "P", "V", "_", "A", "M", "D", "_", "g", "p", "u", "_", "s", "h", "a", "d", "e", "r", "_", "i", "n", "t", "1", "6">>,
     <<"S", "P", "V", "_", "A", "M", "D", "_", "s", "h", "a", "d", "e", "r", "_",
        "t", "r", "i", "n", "a", "r", "y", "_", "m", "i", "n", "m", "a", "x">>,
     <<"S", "P", "V", "_", "K", "H", "R", "_", "n", "o", "n", "_", "s", "e", "m", "a", "n", "t", "i", "c", "_", "i", "n", "f", "o">> >>

SPV_VALIDATOR_ignore_type_decl_unique ==
  <<"S", "P", "V", "_", "V", "A", "L", "I", "D", "A", "T", "O", "R", "_",
    "i", "g", "n", "o", "r", "e", "_", "t", "y", "p", "e", "_", "d", "e", "c", "l", "_", "u", "n", "i", "q", "u", "e">>

\* The assert left out: it never fails.
NeverInGrammar(names) == FALSE

\* Whether the assert of get_extension_list fails: a name of the list is
\* among the extensions of the grammar.
AlreadyInGrammar(names) ==
  \E i \in DOMAIN EXTENSIONS_FROM_SPIRV_REGISTRY_AND_NOT_FROM_GRAMMARS :
    EXTENSIONS_FROM_SPIRV_REGISTRY_AND_NOT_FROM_GRAMMARS[i] \in Range(names)

\* get_extension_list(instructions, operand_kinds): the sorted list, or a
\* failure of the assert.
get_extension_list(insts, kinds) ==
  LET flat == KindEnumerants(kinds)
      names ==
        Concat([i \in DOMAIN insts |-> insts[i].extensions])
          \o Concat([i \in DOMAIN flat |-> flat[i].entry.extensions])
  IN IF AlreadyInGrammar(names) THEN [ok |-> FALSE, extensions |-> <<>>]
     ELSE [ok |-> TRUE,
           extensions |->
             SortedStrs(Range(names
                                \o EXTENSIONS_FROM_SPIRV_REGISTRY_AND_NOT_FROM_GRAMMARS
                                \o <<SPV_VALIDATOR_ignore_type_decl_unique>>))]

\* generate_extension_enum(extensions)
generate_extension_enum(names) ==
  [i \in DOMAIN names |-> <<"k">> \o names[i]]

\* generate_extension_to_string_mapping(extensions): the cases of the switch.
generate_extension_to_string_mapping(names) ==
  [i \in DOMAIN names |->
     [case |-> <<"k">> \o names[i], returns |-> names[i]]]

\* generate_string_to_extension_mapping(extensions): the two arrays.
generate_string_to_extension_mapping(names) ==
  [known_ext_strs |-> names,
   known_ext_ids |-> [i \in DOMAIN names |-> <<"k">> \o names[i]]]

\* get_capabilities(operand_kinds)
get_capabilities(kinds) ==
  LET IsCapability(k) ==
        k.kind = Some(<<"C", "a", "p", "a", "b", "i", "l", "i", "t", "y">>)
  IN Concat(Map(LAMBDA k : k.enumerants, Filter(IsCapability, kinds)))

\* generate_capability_to_string_mapping(operand_kinds): the cases of the
\* switch, one for the first capability of each value.
generate_capability_to_string_mapping(kinds) ==
  LET capabilities == get_capabilities(kinds)
      IsFirst(i) ==
        \A j \in 1..(i - 1) : capabilities[j].value # capabilities[i].value
      firsts == Filter(LAMBDA i : IsFirst(i),
                       [i \in DOMAIN capabilities |-> i])
  IN [i \in DOMAIN firsts |->
        IF capabilities[firsts[i]].enumerant = None
        THEN <<"N", "o", "n", "e">>
        ELSE capabilities[firsts[i]].enumerant[1]]

\* generate_all_string_enum_mappings(extensions, operand_kinds)
generate_all_string_enum_mappings(names, kinds) ==
  [extension_to_string |-> generate_extension_to_string_mapping(names),
   string_to_extension |-> generate_string_to_extension_mapping(names),
   capability_to_string |-> generate_capability_to_string_mapping(kinds)]

\* ------------------------------------------------------------ the inputs

\* The names the pool is exercised with: the third is the concatenation of
\* the first two.
PoolNames == {<<"A">>, <<"B">>, <<"A", "B">>}

PoolInputs == SeqsUpTo(SeqsUpTo(PoolNames, MaxNames), MaxSeqs)

Inst(opname, opcode, cs, es, operands, version, lastVersion) ==
  [opname |-> opname, opcode |-> opcode, capabilities |-> cs,
   extensions |-> es, operands |-> operands, version |-> version,
   lastVersion |-> lastVersion]

Operand(kind, quantifier) == [kind |-> kind, quantifier |-> quantifier]

\* Instructions that differ in opcode, in name and in their capabilities,
\* to exercise the order of the table.
SortInsts ==
  {Inst(Some(n), c, cs, <<>>, <<>>, None, None) :
     n \in {<<"O", "p", "A">>, <<"O", "p", "B">>},
     c \in {1, 2},
     cs \in {<<>>, <<<<"A">>>>}}

OperandChoices ==
  {Operand(<<"I", "d", "R", "e", "f">>, Mandatory),
   Operand(<<"I", "d", "R", "e", "f">>, Variadic),
   Operand(IdResultType, Mandatory),
   Operand(<<"P", "a", "i", "r", "I", "d", "R", "e", "f", "I", "d", "R", "e", "f">>, Variadic)}

VersionChoices == {None, Some(NoneLiteral), Some(<<"1", ".", "3">>)}

LastVersionChoices == {None, Some(<<"1", ".", "5">>)}

\* Single instructions that differ in name, operands and versions, to
\* exercise the descriptor.
DescInsts ==
  {Inst(n, 12, <<>>, <<>>, ops, v, lv) :
     n \in {None, Some(Op \o ExtInst), Some(<<"O", "p", "N", "o", "p">>)},
     ops \in SeqsUpTo(OperandChoices, MaxOperands),
     v \in VersionChoices,
     lv \in LastVersionChoices}

InstTables == SeqsUpTo(SortInsts, MaxInsts) \cup {<<d>> : d \in DescInsts}

Enumerant(name, value, cs, es) ==
  [enumerant |-> Some(name), value |-> Some(value), capabilities |-> cs,
   extensions |-> es, parameters |-> <<>>, version |-> None,
   lastVersion |-> None]

Kind(kind, category, enumerants) ==
  [kind |-> kind, category |-> category, enumerants |-> enumerants]

\* One value written in two ways, and another value.
BitValues == {StrVal(<<"0", "x", "1">>), StrVal(<<"0", "x", "0", "1">>),
              StrVal(<<"0", "x", "2">>)}

IntValues == {IntVal(1), IntVal(2)}

ExtChoices == {<<>>, <<<<"X">>>>, <<<<"Y">>>>}

\* One operand kind K whose enumerants a, b, c, ... differ in value and in
\* extensions, to exercise the aliases.
AliasKinds ==
  UNION {
    {Kind(Some(<<"K">>), c.category,
          [i \in DOMAIN es |-> Enumerant(<<Lowers[i]>>, es[i][1], <<>>, es[i][2])]) :
       es \in SeqsUpTo(c.values \X ExtChoices, MaxEnumerants)} :
    c \in {[category |-> "BitEnum", values |-> BitValues],
           [category |-> "ValueEnum", values |-> IntValues]}}

\* The three operand kinds that have an optional counterpart, another
\* enumerated kind, and a kind that is not enumerated.
KindChoices ==
  {Kind(Some(<<"I", "m", "a", "g", "e", "O", "p", "e", "r", "a", "n", "d", "s">>),
        "BitEnum",
        <<Enumerant(<<"b">>, StrVal(<<"0", "x", "1">>), <<>>, <<<<"X">>>>),
          Enumerant(<<"a">>, StrVal(<<"0", "x", "0">>), <<>>, <<>>)>>),
   Kind(Some(<<"A", "c", "c", "e", "s", "s", "Q", "u", "a", "l", "i", "f", "i", "e", "r">>),
        "ValueEnum",
        <<Enumerant(<<"a">>, IntVal(0), <<<<"A">>>>, <<>>)>>),
   Kind(Some(<<"M", "e", "m", "o", "r", "y", "A", "c", "c", "e", "s", "s">>),
        "BitEnum",
        <<Enumerant(<<"a">>, StrVal(<<"0", "x", "1">>), <<>>, <<>>)>>),
   Kind(Some(<<"D", "i", "m">>), "ValueEnum",
        <<Enumerant(<<"a">>, IntVal(0), <<>>, <<>>)>>),
   Kind(Some(<<"I", "d", "R", "e", "f">>), "Id", <<>>)}

\* The three operand kinds that have an optional counterpart, as a list.
ConfiguredKinds ==
  LET named(n) == CHOOSE k \in KindChoices : k.kind = Some(n)
  IN << named(<<"I", "m", "a", "g", "e", "O", "p", "e", "r", "a", "n", "d", "s">>),
        named(<<"A", "c", "c", "e", "s", "s", "Q", "u", "a", "l", "i", "f", "i", "e", "r">>),
        named(<<"M", "e", "m", "o", "r", "y", "A", "c", "c", "e", "s", "s">>) >>

\* The grammars of operand kinds: the kind K alone, the kind K before the
\* three configured kinds, and the lists of the other kinds.
KindInputs ==
  {<<k>> : k \in AliasKinds}
    \cup {<<k>> \o ConfiguredKinds : k \in AliasKinds}
    \cup SeqsUpTo(KindChoices, MaxKinds)

\* Extension names of a grammar: one that sorts before the supplementary
\* names, one among them, one after them, the reserved name, and a name
\* of the supplementary list.
ExtensionNames ==
  { <<"A">>, <<"S", "P", "V", "_", "B">>, <<"Z">>,
    SPV_VALIDATOR_ignore_type_decl_unique,
    EXTENSIONS_FROM_SPIRV_REGISTRY_AND_NOT_FROM_GRAMMARS[1] }

ExtensionLists == SeqsUpTo(ExtensionNames, MaxExtNames)

\* The prefix main gives to the operand kinds of OpenCL.DebugInfo.100.
CLDEBUG100_ == <<"C", "L", "D", "E", "B", "U", "G", "1", "0", "0", "_">>

\* The kinds the operands and the parameters of the prefixed grammar name:
\* K is declared by the grammar, IdRef is not.
ReferenceLists == SeqsUpTo({<<"K">>, <<"I", "d", "R", "e", "f">>}, MaxOperands)

\* A grammar with one instruction and one operand kind K with one
\* enumerant: the operands name the kinds of os, the parameters those of ps.
PrefixGrammar(os, ps) ==
  [instructions |->
     << Inst(Some(<<"D", "e", "b", "u", "g">>), 1, <<>>, <<>>,
             [i \in DOMAIN os |-> Operand(os[i], Mandatory)], None, None) >>,
   operand_kinds |->
     << Kind(Some(<<"K">>), "ValueEnum",
             << [Enumerant(<<"a">>, IntVal(0), <<>>, <<>>) EXCEPT
                   !.parameters = [i \in DOMAIN ps |-> [kind |-> ps[i]]]] >>) >>]

\* The kinds convert_operand_kind is given: every kind of the two
\* chains, and kinds that are in neither, among them the empty name, a
\* name a chain renames to, a prefixed name and names with and without a
\* change from lower to upper case.
ConvertKinds ==
  {RenameTable[i][1] : i \in DOMAIN RenameTable}
    \cup { <<"F", "P", "R", "o", "u", "n", "d", "i", "n", "g", "M", "o", "d", "e">>,
           <<"F", "P", "F", "a", "s", "t", "M", "a", "t", "h", "M", "o", "d", "e">>,
           <<"C", "a", "p", "a", "b", "i", "l", "i", "t", "y">>,
           <<"L", "i", "t", "e", "r", "a", "l", "I", "n", "t", "e", "g", "e", "r">>,
           <<"C", "L", "D", "E", "B", "U", "G", "1", "0", "0", "_", "D", "e", "b", "u", "g", "I", "n", "f", "o", "F", "l", "a", "g", "s">>,
           <<"K">>,
           <<>>,
           <<"T", "y", "p", "e", "I", "d">>,
           <<"a", "B">>,
           <<"I", "D">>,
           <<"I", "d">> }

\* The quantifiers it is given: those of the grammar and another string.
ConvertQuantifiers == {Mandatory, OptionalQ, Variadic, <<"+">>}

\* The instructions of an extended instruction set: they differ in opcode
\* and in their capabilities.
ExtInsts ==
  {Inst(Some(<<"R", "o", "u", "n", "d">>), opcode, cs, <<>>,
        <<Operand(<<"I", "d", "R", "e", "f">>, Mandatory)>>, None, None) :
     opcode \in {1, 2},
     cs \in {<<>>, <<<<"A">>>>, <<<<"A">>, <<"B">>>>, <<<<"A", "B">>>>}}

ExtInstTables == SeqsUpTo(ExtInsts, MaxInsts)

\* ----------------------------------------------------------- the functions

kindVars == <<operand_kinds, loaded_kinds, preconditioned, kind_table>>

mainVars == <<args, instructions, extensions, files, contents>>

convVars == <<operand_tuple, operand_type>>

\* The designators of main: TRUE for one that is given.
Designators ==
  {"spirv_core_grammar", "extinst_debuginfo_grammar",
   "extinst_cldebuginfo100_grammar", "extinst_glsl_grammar",
   "extinst_opencl_grammar", "extinst_vendor_grammar",
   "core_insts_output", "operand_kinds_output", "extension_enum_output",
   "enum_string_mapping_output", "glsl_insts_output", "opencl_insts_output",
   "vendor_insts_output", "vendor_operand_kind_prefix"}

Outputs ==
  {"core_insts_output", "operand_kinds_output", "extension_enum_output",
   "enum_string_mapping_output", "glsl_insts_output", "opencl_insts_output",
   "vendor_insts_output"}

NoArgs == [d \in Designators |-> FALSE]

NoFiles == [f \in Outputs |-> "absent"]

NoContents == [f \in Outputs |-> <<>>]

Init ==
  /\ pc = "start"
  /\ caps = <<>>
  /\ exts = <<>>
  /\ arrays = <<>>
  /\ refs = <<>>
  /\ inst_table = <<>>
  /\ core_insts = NoTable
  /\ operand_kinds = <<>>
  /\ loaded_kinds = <<>>
  /\ preconditioned = FALSE
  /\ kind_table = NoKindTable
  /\ args = NoArgs
  /\ instructions = <<>>
  /\ extensions = <<>>
  /\ files = NoFiles
  /\ contents = NoContents
  /\ operand_tuple = None
  /\ operand_type = None

\* One artifact's use of the capability pool: the arrays are generated from
\* every sequence of the artifact, and each call site resolves its own.
CapabilityPool ==
  /\ pc = "start"
  /\ \E cs \in PoolInputs :
        /\ caps' = cs
        /\ arrays' = generate_capability_arrays(cs)
        /\ refs' = [i \in DOMAIN cs |-> get_capability_array_name(cs[i])]
  /\ pc' = "caps_done"
  /\ UNCHANGED <<exts, inst_table, core_insts, kindVars, mainVars, convVars>>

ExtensionPool ==
  /\ pc = "start"
  /\ \E es \in PoolInputs :
        /\ exts' = es
        /\ arrays' = generate_extension_arrays(es)
        /\ refs' = [i \in DOMAIN es |-> get_extension_array_name(es[i])]
  /\ pc' = "exts_done"
  /\ UNCHANGED <<caps, inst_table, core_insts, kindVars, mainVars, convVars>>

GenerateInstructionTable ==
  /\ pc = "start"
  /\ \E tbl \in InstTables :
        /\ inst_table' = tbl
        /\ core_insts' = generate_instruction_table(tbl)
  /\ pc' = "insts_done"
  /\ UNCHANGED <<caps, exts, arrays, refs, kindVars, mainVars, convVars>>

\* json.loads of a grammar: its operand kinds.
LoadOperandKinds ==
  /\ pc = "start"
  /\ \E ks \in KindInputs :
        /\ operand_kinds' = ks
        /\ loaded_kinds' = ks
  /\ pc' = "kinds_loaded"
  /\ UNCHANGED <<caps, exts, arrays, refs, inst_table, core_insts,
                 preconditioned, kind_table, mainVars, convVars>>

PreconditionOperandKinds ==
  /\ pc = "kinds_loaded"
  /\ ~preconditioned
  /\ LET r == precondition_operand_kinds(operand_kinds)
     IN IF r.ok
        THEN /\ operand_kinds' = r.kinds
             /\ preconditioned' = TRUE
             /\ pc' = "kinds_loaded"
        ELSE /\ pc' = "failed"
             /\ UNCHANGED <<operand_kinds, preconditioned>>
  /\ UNCHANGED <<caps, exts, arrays, refs, inst_table, core_insts,
                 loaded_kinds, kind_table, mainVars, convVars>>

GenerateOperandKindTable ==
  /\ pc = "kinds_loaded"
  /\ kind_table' = generate_operand_kind_table(operand_kinds)
  /\ pc' = "kinds_done"
  /\ UNCHANGED <<caps, exts, arrays, refs, inst_table, core_insts,
                 operand_kinds, loaded_kinds, preconditioned, mainVars, convVars>>

\* get_extension_list on a grammar of one instruction and one enumerant,
\* and the artifacts derived from the list.
GetExtensionList ==
  /\ pc = "start"
  /\ \E ies \in ExtensionLists, ees \in ExtensionLists :
       LET insts == <<Inst(Some(<<"O", "p", "N", "o", "p">>), 0, <<>>, ies,
                           <<>>, None, None)>>
           kinds == <<Kind(Some(<<"K">>), "ValueEnum",
                           <<Enumerant(<<"a">>, IntVal(0), <<>>, ees)>>)>>
           list == get_extension_list(insts, kinds)
       IN /\ instructions' = insts
          /\ loaded_kinds' = kinds
          /\ operand_kinds' = kinds
          /\ IF list.ok
             THEN /\ pc' = "extensions_done"
                  /\ extensions' = list.extensions
                  /\ contents' =
                       [contents EXCEPT
                          !.extension_enum_output =
                            generate_extension_enum(list.extensions),
                          !.enum_string_mapping_output =
                            generate_all_string_enum_mappings(list.extensions,
                                                              kinds)]
             ELSE /\ pc' = "failed"
                  /\ UNCHANGED <<extensions, contents>>
  /\ UNCHANGED <<caps, exts, arrays, refs, inst_table, core_insts,
                 preconditioned, kind_table, args, files, convVars>>

\* prefix_operand_kind_names("CLDEBUG100_", grammar): the grammar is
\* rewritten in place; the ghost variables instructions and loaded_kinds
\* keep it as it was.
PrefixOperandKindNames ==
  /\ pc = "start"
  /\ \E os \in ReferenceLists, ps \in ReferenceLists :
       LET grammar == PrefixGrammar(os, ps)
           prefixed == prefix_operand_kind_names(CLDEBUG100_, grammar)
       IN /\ instructions' = grammar.instructions
          /\ loaded_kinds' = grammar.operand_kinds
          /\ inst_table' = prefixed.grammar.instructions
          /\ operand_kinds' = prefixed.grammar.operand_kinds
          /\ pc' = IF prefixed.ok THEN "prefixed" ELSE "failed"
  /\ UNCHANGED <<caps, exts, arrays, refs, core_insts, preconditioned,
                 kind_table, args, extensions, files, contents, convVars>>

\* A call of convert_operand_kind; it may follow any number of earlier
\* calls.
ConvertOperandKind ==
  /\ pc \in {"start", "converted"}
  /\ \E kind \in ConvertKinds, quantifier \in ConvertQuantifiers :
       /\ operand_tuple' = Some(<<kind, quantifier>>)
       /\ operand_type' = Some(convert_operand_kind(kind, quantifier))
  /\ pc' = "converted"
  /\ UNCHANGED <<caps, exts, arrays, refs, inst_table, core_insts, kindVars,
                 mainVars>>

\* generate_extended_instruction_table on a grammar without operand kinds
\* and without a prefix; the table is what main writes to the file.
GenerateExtendedInstructionTable ==
  /\ pc = "start"
  /\ \E tbl \in ExtInstTables :
       LET table == generate_extended_instruction_table(
                      [instructions |-> tbl, operand_kinds |-> <<>>], None)
       IN /\ instructions' = tbl
          /\ contents' = [contents EXCEPT !.glsl_insts_output = table]
          /\ pc' = IF table.ok THEN "ext_insts_done" ELSE "failed"
  /\ UNCHANGED <<caps, exts, arrays, refs, inst_table, core_insts, kindVars,
                 args, extensions, files, convVars>>

Next ==
  \/ CapabilityPool
  \/ ExtensionPool
  \/ GenerateInstructionTable
  \/ LoadOperandKinds
  \/ PreconditionOperandKinds
  \/ GenerateOperandKindTable
  \/ GetExtensionList
  \/ PrefixOperandKindNames
  \/ ConvertOperandKind
  \/ GenerateExtendedInstructionTable

Spec == Init /\ [][Next]_vars

\* -------------------------------------------------------------------- main

\* What a grammar file may lack or hold: nothing special, a missing required
\* field, or an extension of the supplementary list.
CoreDefects ==
  {"none", "no_opname", "no_kind", "no_enumerant", "no_value",
   "instruction_extension", "enumerant_extension"}

ImageOperandsKind(d) ==
  Kind(IF d = "no_kind" THEN None
       ELSE Some(<<"I", "m", "a", "g", "e", "O", "p", "e", "r", "a", "n", "d", "s">>),
       "BitEnum",
       << [enumerant |-> IF d = "no_enumerant" THEN None ELSE Some(<<"a">>),
           value |-> IF d = "no_value" THEN None
                     ELSE Some(StrVal(<<"0", "x", "1">>)),
           capabilities |-> <<>>,
           extensions |->
             IF d = "enumerant_extension"
             THEN <<EXTENSIONS_FROM_SPIRV_REGISTRY_AND_NOT_FROM_GRAMMARS[5]>>
             ELSE <<<<"X">>>>,
           parameters |-> <<>>, version |-> None, lastVersion |-> None] >>)

\* The core grammar: one instruction, and the three operand kinds that have
\* an optional counterpart.
CoreGrammar(d) ==
  [instructions |->
     << Inst(IF d = "no_opname" THEN None ELSE Some(<<"O", "p", "N", "o", "p">>),
             0, <<>>,
             IF d = "instruction_extension"
             THEN <<EXTENSIONS_FROM_SPIRV_REGISTRY_AND_NOT_FROM_GRAMMARS[1]>>
             ELSE <<>>,
             <<>>, None, None) >>,
   operand_kinds |->
     << ImageOperandsKind(d),
        Kind(Some(<<"A", "c", "c", "e", "s", "s", "Q", "u", "a", "l", "i", "f", "i", "e", "r">>),
             "ValueEnum", <<Enumerant(<<"a">>, IntVal(0), <<<<"A">>>>, <<>>)>>),
        Kind(Some(<<"M", "e", "m", "o", "r", "y", "A", "c", "c", "e", "s", "s">>),
             "BitEnum",
             <<Enumerant(<<"a">>, StrVal(<<"0", "x", "1">>), <<>>, <<>>)>>) >>]

DebugInfoDefects == {"none", "no_opname", "instruction_extension"}

\* The DebugInfo grammar: one instruction and no operand kind.
DebugInfoGrammar(d) ==
  [instructions |->
     << Inst(IF d = "no_opname" THEN None
             ELSE Some(<<"D", "e", "b", "u", "g", "I", "n", "f", "o", "N", "o", "n", "e">>),
             0, <<>>,
             IF d = "instruction_extension"
             THEN <<EXTENSIONS_FROM_SPIRV_REGISTRY_AND_NOT_FROM_GRAMMARS[1]>>
             ELSE <<>>,
             <<>>, None, None) >>,
   operand_kinds |-> <<>>]

DebugInfoFlags == <<"D", "e", "b", "u", "g", "I", "n", "f", "o", "F", "l", "a", "g", "s">>

CLDebugInfoDefects == {"none", "no_kind"}

\* The OpenCL.DebugInfo.100 grammar: one instruction with an operand of the
\* one operand kind the grammar declares.
CLDebugInfoGrammar(d) ==
  [instructions |->
     << Inst(Some(<<"D", "e", "b", "u", "g", "S", "c", "o", "p", "e">>),
             1, <<>>, <<>>, <<Operand(DebugInfoFlags, Mandatory)>>, None, None) >>,
   operand_kinds |->
     << Kind(IF d = "no_kind" THEN None ELSE Some(DebugInfoFlags), "BitEnum",
             <<Enumerant(<<"b">>, StrVal(<<"0", "x", "1">>), <<>>, <<>>)>>) >>]

ExtInstDefects == {"none", "no_opname"}

\* The grammar of an extended instruction set: two instructions, the second
\* with the smaller opcode.
ExtInstGrammar(d) ==
  [instructions |->
     << Inst(Some(<<"R", "o", "u", "n", "d">>), 2, <<<<"A">>>>, <<>>,
             <<Operand(<<"I", "d", "R", "e", "f">>, Mandatory)>>, None, None),
        Inst(IF d = "no_opname" THEN None ELSE Some(<<"A", "b", "s">>),
             1, <<>>, <<>>, <<Operand(<<"K">>, Mandatory)>>, None, None) >>,
   operand_kinds |-> <<Kind(Some(<<"K">>), "ValueEnum", <<>>)>>]

\* The value of --vendor-operand-kind-prefix when it is given.
VendorPrefix == <<"V", "_">>

InitMain ==
  /\ pc = "main"
  /\ args \in [Designators -> BOOLEAN]
  /\ caps = <<>>
  /\ exts = <<>>
  /\ arrays = <<>>
  /\ refs = <<>>
  /\ inst_table = <<>>
  /\ core_insts = NoTable
  /\ operand_kinds = <<>>
  /\ loaded_kinds = <<>>
  /\ preconditioned = FALSE
  /\ kind_table = NoKindTable
  /\ instructions = <<>>
  /\ extensions = <<>>
  /\ files = NoFiles
  /\ contents = NoContents
  /\ operand_tuple = None
  /\ operand_type = None

\* The checks of the designators: main prints an error and exits.
Rejected ==
  \/ args.core_insts_output # args.operand_kinds_output
  \/ /\ args.operand_kinds_output
     /\ ~(/\ args.spirv_core_grammar
          /\ args.extinst_debuginfo_grammar
          /\ args.extinst_cldebuginfo100_grammar)
  \/ args.glsl_insts_output # args.extinst_glsl_grammar
  \/ args.opencl_insts_output # args.extinst_opencl_grammar
  \/ args.vendor_insts_output # args.extinst_vendor_grammar
  \/ /\ ~args.core_insts_output
     /\ ~args.glsl_insts_output
     /\ ~args.opencl_insts_output
     /\ ~args.vendor_insts_output
     /\ ~args.extension_enum_output
     /\ ~args.enum_string_mapping_output

ValidateArgs ==
  /\ pc = "main"
  /\ pc' = IF Rejected THEN "rejected" ELSE "validated"
  /\ UNCHANGED <<caps, exts, arrays, refs, inst_table, core_insts, kindVars,
                 mainVars, convVars>>

\* The three grammars are read; the operand kinds of the third are
\* prefixed; the grammars are merged; the extension list is built and the
\* operand kinds are preconditioned.  open(None) fails when the second or
\* the third grammar is not given.
LoadCoreGrammars ==
  /\ pc = "validated"
  /\ args.spirv_core_grammar
  /\ IF ~args.extinst_debuginfo_grammar \/ ~args.extinst_cldebuginfo100_grammar
     THEN /\ pc' = "failed"
          /\ UNCHANGED <<inst_table, operand_kinds, loaded_kinds,
                         preconditioned, instructions, extensions>>
     ELSE \E c \in CoreDefects, d \in DebugInfoDefects, cl \in CLDebugInfoDefects :
            LET core_grammar == CoreGrammar(c)
                debuginfo_grammar == DebugInfoGrammar(d)
                prefixed == prefix_operand_kind_names(CLDEBUG100_,
                                                      CLDebugInfoGrammar(cl))
                merged_insts == core_grammar.instructions
                                  \o debuginfo_grammar.instructions
                                  \o prefixed.grammar.instructions
                merged_kinds == core_grammar.operand_kinds
                                  \o debuginfo_grammar.operand_kinds
                                  \o prefixed.grammar.operand_kinds
                list == get_extension_list(merged_insts, merged_kinds)
                pre == precondition_operand_kinds(merged_kinds)
            IN /\ inst_table' = core_grammar.instructions
               /\ IF ~prefixed.ok
                  THEN /\ pc' = "failed"
                       /\ UNCHANGED <<operand_kinds, loaded_kinds,
                                      preconditioned, instructions, extensions>>
                  ELSE /\ instructions' = merged_insts
                       /\ loaded_kinds' = merged_kinds
                       /\ IF ~list.ok
                          THEN /\ pc' = "failed"
                               /\ operand_kinds' = merged_kinds
                               /\ UNCHANGED <<preconditioned, extensions>>
                          ELSE /\ extensions' = list.extensions
                               /\ IF ~pre.ok
                                  THEN /\ pc' = "failed"
                                       /\ operand_kinds' = merged_kinds
                                       /\ UNCHANGED preconditioned
                                  ELSE /\ pc' = "core_loaded"
                                       /\ operand_kinds' = pre.kinds
                                       /\ preconditioned' = TRUE
  /\ UNCHANGED <<caps, exts, arrays, refs, core_insts, kind_table, args,
                 files, contents, convVars>>

\* No core grammar: nothing of the core block runs.
SkipCoreGrammars ==
  /\ pc = "validated"
  /\ ~args.spirv_core_grammar
  /\ pc' = "core_done"
  /\ UNCHANGED <<caps, exts, arrays, refs, inst_table, core_insts, kindVars,
                 mainVars, convVars>>

\* The tables written with the last three operand kinds deleted from the
\* grammar itself.
WriteCoreTablesInPlace ==
  /\ pc = "core_loaded"
  /\ pc' = "tables_done"
  /\ operand_kinds' = AllButLastThree(operand_kinds)
  /\ UNCHANGED <<caps, exts, arrays, refs, inst_table, core_insts,
                 loaded_kinds, preconditioned, kind_table, mainVars, convVars>>

\* The instruction table and the operand-kind table: each file is opened
\* for writing, then its table is generated and written.
WriteCoreTables ==
  /\ pc = "core_loaded"
  /\ IF ~args.core_insts_output
     THEN /\ pc' = "tables_done"
          /\ UNCHANGED <<core_insts, kind_table, files>>
     ELSE LET insts == generate_instruction_table(inst_table)
              kinds == generate_operand_kind_table(operand_kinds)
          IN /\ core_insts' = insts
             /\ IF ~insts.ok
                THEN /\ pc' = "failed"
                     /\ files' = [files EXCEPT !.core_insts_output = "created"]
                     /\ UNCHANGED kind_table
                ELSE /\ kind_table' = kinds
                     /\ IF ~kinds.ok
                        THEN /\ pc' = "failed"
                             /\ files' = [files EXCEPT
                                            !.core_insts_output = "written",
                                            !.operand_kinds_output = "created"]
                        ELSE /\ pc' = "tables_done"
                             /\ files' = [files EXCEPT
                                            !.core_insts_output = "written",
                                            !.operand_kinds_output = "written"]
  /\ UNCHANGED <<caps, exts, arrays, refs, inst_table, operand_kinds,
                 loaded_kinds, preconditioned, args, instructions,
                 extensions, contents, convVars>>

WriteExtensionEnum ==
  /\ pc = "tables_done"
  /\ pc' = "enum_done"
  /\ IF args.extension_enum_output
     THEN /\ files' = [files EXCEPT !.extension_enum_output = "written"]
          /\ contents' = [contents EXCEPT
                            !.extension_enum_output =
                              generate_extension_enum(extensions)]
     ELSE UNCHANGED <<files, contents>>
  /\ UNCHANGED <<caps, exts, arrays, refs, inst_table, core_insts, kindVars,
                 args, instructions, extensions, convVars>>

WriteEnumStringMapping ==
  /\ pc = "enum_done"
  /\ pc' = "core_done"
  /\ IF args.enum_string_mapping_output
     THEN /\ files' = [files EXCEPT !.enum_string_mapping_output = "written"]
          /\ contents' = [contents EXCEPT
                            !.enum_string_mapping_output =
                              generate_all_string_enum_mappings(extensions,
                                                                operand_kinds)]
     ELSE UNCHANGED <<files, contents>>
  /\ UNCHANGED <<caps, exts, arrays, refs, inst_table, core_insts, kindVars,
                 args, instructions, extensions, convVars>>

\* One extended instruction set: when its grammar is given, the grammar is
\* read, the output file is opened for writing, and the table is generated
\* and written.
WriteExtInsts(from, to, grammar_given, output, prefix) ==
  /\ pc = from
  /\ IF ~grammar_given
     THEN /\ pc' = to
          /\ UNCHANGED <<files, contents>>
     ELSE \E d \in ExtInstDefects :
            LET table == generate_extended_instruction_table(ExtInstGrammar(d),
                                                             prefix)
            IN IF ~table.ok
               THEN /\ pc' = "failed"
                    /\ files' = [files EXCEPT ![output] = "created"]
                    /\ UNCHANGED contents
               ELSE /\ pc' = to
                    /\ files' = [files EXCEPT ![output] = "written"]
                    /\ contents' = [contents EXCEPT ![output] = table]
  /\ UNCHANGED <<caps, exts, arrays, refs, inst_table, core_insts, kindVars,
                 args, instructions, extensions, convVars>>

WriteGlslInsts ==
  WriteExtInsts("core_done", "glsl_done", args.extinst_glsl_grammar,
                "glsl_insts_output", None)

WriteOpenCLInsts ==
  WriteExtInsts("glsl_done", "opencl_done", args.extinst_opencl_grammar,
                "opencl_insts_output", None)

WriteVendorInsts ==
  WriteExtInsts("opencl_done", "done", args.extinst_vendor_grammar,
                "vendor_insts_output",
                IF args.vendor_operand_kind_prefix
                THEN Some(VendorPrefix) ELSE None)

NextMain ==
  \/ ValidateArgs
  \/ LoadCoreGrammars
  \/ SkipCoreGrammars
  \/ WriteCoreTables
  \/ WriteExtensionEnum
  \/ WriteEnumStringMapping
  \/ WriteGlslInsts
  \/ WriteOpenCLInsts
  \/ WriteVendorInsts

SpecMain == InitMain /\ [][NextMain]_vars

\* ------------------------------------------------------------- the claims

PoolDone == pc \in {"caps_done", "exts_done"}

PoolInput == IF pc = "caps_done" THEN caps ELSE exts

\* C2: the pool emits exactly one array per distinct non-empty sequence of
\* its input and none for an empty one; every emitted array comes from the
\* input; an empty sequence resolves to 'nullptr', two equal sequences
\* resolve to the same reference, and that reference is the name under
\* which the sequence's array was emitted.
C2_OneArrayPerDistinctTuple ==
  PoolDone =>
    /\ \A i \in DOMAIN PoolInput :
          PoolInput[i] # <<>> =>
            Cardinality({k \in DOMAIN arrays : arrays[k].elems = PoolInput[i]}) = 1
    /\ \A k \in DOMAIN arrays :
          /\ arrays[k].elems # <<>>
          /\ \E i \in DOMAIN PoolInput : PoolInput[i] = arrays[k].elems
    /\ \A i \in DOMAIN PoolInput : PoolInput[i] = <<>> => refs[i] = nullptr
    /\ \A i, j \in DOMAIN PoolInput :
          PoolInput[i] = PoolInput[j] => refs[i] = refs[j]
    /\ \A i \in DOMAIN PoolInput : \A k \in DOMAIN arrays :
          arrays[k].elems = PoolInput[i] => arrays[k].name = refs[i]

\* The same non-empty sequence given twice, resolved to one emitted array.
C2_Witness ==
  /\ PoolDone
  /\ Len(PoolInput) = 2
  /\ PoolInput[1] = PoolInput[2]
  /\ Len(PoolInput[1]) = 2
  /\ Len(arrays) = 1
  /\ refs[1] = arrays[1].name

\* C3: two distinct non-empty sequences resolve to two arrays with two
\* different names, so that the reference of a sequence names the array of
\* that sequence and of no other.
C3_DistinctTuplesDistinctArrays ==
  PoolDone =>
    /\ \A k1, k2 \in DOMAIN arrays :
          k1 # k2 => arrays[k1].name # arrays[k2].name
    /\ \A i \in DOMAIN PoolInput : \A k \in DOMAIN arrays :
          arrays[k].name = refs[i] => arrays[k].elems = PoolInput[i]

InstsDone == pc = "insts_done"

\* a <= b in the order (opcode ascending, opname ascending).
InstKeyLeq(a, b) ==
  \/ a.opcode < b.opcode
  \/ a.opcode = b.opcode /\ ~StrLess(b.opname[1], a.opname[1])

\* a < b in that order.
InstKeyLeqStrict(a, b) == ~InstKeyLeq(b, a)

\* C1: the descriptors of the instruction table are those of the input
\* instructions in ascending order of (opcode, opname), and two instructions
\* with the same (opcode, opname) keep the order they have in the input.
C1_InstructionsSortedStable ==
  (InstsDone /\ core_insts.ok) =>
    \E p \in Permutations(DOMAIN inst_table) :
      /\ \A i, j \in DOMAIN inst_table :
           i < j =>
             /\ InstKeyLeq(inst_table[p[i]], inst_table[p[j]])
             /\ InstKeyLeq(inst_table[p[j]], inst_table[p[i]]) => p[i] < p[j]
      /\ \A i \in DOMAIN inst_table :
           core_insts.insts[i] = generate_instruction(inst_table[p[i]])

\* Three instructions given out of order, two of them with the same
\* (opcode, opname) and different capabilities.
C1_Witness ==
  /\ InstsDone
  /\ core_insts.ok
  /\ Len(inst_table) = 3
  /\ inst_table[1].opcode = 2
  /\ inst_table[2].opcode = 1
  /\ inst_table[3].opcode = 1
  /\ inst_table[2].opname = inst_table[3].opname
  /\ inst_table[2].capabilities # inst_table[3].capabilities
  /\ core_insts.insts[1] = generate_instruction(inst_table[2])
  /\ core_insts.insts[3] = generate_instruction(inst_table[1])

\* The instructions of the table in the order of their descriptors.
InstsInOrder == SortedStable(InstKeyLeqStrict, inst_table)

IsXdotY(v) == Len(v) = 3 /\ v[2] = "."

\* C6: in every descriptor, an absent minimum version is encoded as
\* SPV_SPIRV_VERSION_WORD(1, 0), the minimum version 'None' as 0xffffffffu,
\* a minimum or maximum version 'X.Y' as SPV_SPIRV_VERSION_WORD(X,Y), and an
\* absent maximum version as 0xffffffffu.
C6_VersionEncoding ==
  (InstsDone /\ core_insts.ok) =>
    \A i \in DOMAIN inst_table :
      LET inst == InstsInOrder[i]
          desc == core_insts.insts[i]
      IN /\ inst.version = None => desc.min_version = VersionWord_1_0
         /\ inst.version = Some(NoneLiteral) => desc.min_version = AllOnes
         /\ (inst.version # None /\ IsXdotY(inst.version[1])) =>
              desc.min_version =
                VersionWordOpen
                  \o <<inst.version[1][1], ",", inst.version[1][3], ")">>
         /\ inst.lastVersion = None => desc.max_version = AllOnes
         /\ (inst.lastVersion # None /\ IsXdotY(inst.lastVersion[1])) =>
              desc.max_version =
                VersionWordOpen
                  \o <<inst.lastVersion[1][1], ",", inst.lastVersion[1][3], ")">>

\* A descriptor with an explicit minimum and an explicit maximum version.
C6_Witness ==
  /\ InstsDone
  /\ core_insts.ok
  /\ Len(inst_table) = 1
  /\ inst_table[1].version = Some(<<"1", ".", "3">>)
  /\ inst_table[1].lastVersion = Some(<<"1", ".", "5">>)
  /\ core_insts.insts[1].min_version =
       VersionWordOpen \o <<"1", ",", "3", ")">>

WellNamed(inst) == inst.opname # None /\ startswith(inst.opname[1], Op)

\* C7: whatever operands the grammar gives OpExtInst, its descriptor is
\* built and its operand types do not end with SPV_OPERAND_TYPE_VARIABLE_ID;
\* the operand types of every other instruction are the converted operands
\* of the grammar, unchanged.
C7_ExtInstNeverEndsVariadic ==
  (InstsDone /\ \A i \in DOMAIN inst_table : WellNamed(inst_table[i])) =>
    /\ core_insts.ok
    /\ \A i \in DOMAIN inst_table :
         LET inst == InstsInOrder[i]
             ops == core_insts.insts[i].operands
         IN IF inst.opname = Some(Op \o ExtInst)
            THEN ops = <<>> \/ ops[Len(ops)] # VARIABLE_ID
            ELSE ops = [k \in DOMAIN inst.operands |->
                          convert_operand_kind(inst.operands[k].kind,
                                               inst.operands[k].quantifier)]

\* The number an enumerant's value denotes: the integer of a ValueEnum, the
\* integer the hexadecimal string of a BitEnum stands for.
NumericValue(entry) ==
  IF entry.value[1].int THEN entry.value[1].n ELSE int16(entry.value[1].s)

\* The descriptors rendered for enumerant `entry` of the kind named `kind`.
DescriptorsOf(kind, entry) ==
  UNION {{x \in Range(d.entries) : x.enumerant = entry.enumerant[1]} :
           d \in {y \in Range(kind_table.enum_entries) :
                    y.name = EntriesName(kind)}}

\* C4: once precondition_operand_kinds has run, two enumerants of one
\* operand kind that denote the same number carry the same extension list,
\* and their rendered descriptors carry the same extension count and the
\* same extension-array reference.
C4_SameValueSameExtensions ==
  preconditioned =>
    \A i \in DOMAIN operand_kinds :
      \A a, b \in Range(operand_kinds[i].enumerants) :
        NumericValue(a) = NumericValue(b) =>
          /\ a.extensions = b.extensions
          /\ (pc = "kinds_done" /\ kind_table.ok) =>
               \A da \in DescriptorsOf(operand_kinds[i].kind[1], a) :
                 \A db \in DescriptorsOf(operand_kinds[i].kind[1], b) :
                   da.num_exts = db.num_exts /\ da.exts = db.exts

\* The extensions of the loaded enumerants of kind i that denote the number
\* n, each once, in the order in which they are first declared.
DeclaredUnion(i, n) ==
  LET es == loaded_kinds[i].enumerants
  IN Dedup(Concat([j \in DOMAIN es |->
                     IF NumericValue(es[j]) = n
                     THEN es[j].extensions ELSE <<>>]))

\* C5: once precondition_operand_kinds has run, every enumerant carries the
\* union of the extension lists of the enumerants of its kind that denote
\* the same number, without duplicates, in the order of first declaration.
C5_UnionInDeclarationOrder ==
  preconditioned =>
    \A i \in DOMAIN operand_kinds :
      \A j \in DOMAIN operand_kinds[i].enumerants :
        operand_kinds[i].enumerants[j].extensions =
          DeclaredUnion(i, NumericValue(loaded_kinds[i].enumerants[j]))

\* The operand kinds of the grammar that are tabulated.
Tabulated == Filter(IsEnumKind, operand_kinds)

\* Each of the three configured kinds is one tabulated kind of the grammar.
ThreePresentOnce ==
  \A k \in three_optional_enums :
    Cardinality({i \in DOMAIN Tabulated : Tabulated[i].kind = Some(k)}) = 1

\* C8: when the grammar holds each of ImageOperands, AccessQualifier and
\* MemoryAccess, the operand-kind table has exactly two rows for each of
\* them, one under its mandatory and one under its optional identifier,
\* both with the same array and the same element count, and the array is
\* defined once.
C8_OptionalKindsTwoRowsOneArray ==
  (pc = "kinds_done" /\ ThreePresentOnce) =>
    /\ kind_table.ok
    /\ \A k \in three_optional_enums :
         LET rows == {i \in DOMAIN kind_table.table :
                        kind_table.table[i].entries = EntriesName(k)}
         IN /\ Cardinality(rows) = 2
            /\ \E i, j \in rows :
                 /\ kind_table.table[i].kind = convert_operand_kind(k, Mandatory)
                 /\ kind_table.table[j].kind = convert_operand_kind(k, OptionalQ)
                 /\ kind_table.table[i].kind # kind_table.table[j].kind
                 /\ kind_table.table[i].size = kind_table.table[j].size
            /\ Cardinality({i \in DOMAIN kind_table.enum_entries :
                              kind_table.enum_entries[i].name = EntriesName(k)}) = 1

\* The three kinds and a fourth one between them.
C8_Witness ==
  /\ pc = "kinds_done"
  /\ ThreePresentOnce
  /\ Len(operand_kinds) = 4
  /\ operand_kinds[2].kind = Some(<<"D", "i", "m">>)
  /\ kind_table.ok
  /\ Len(kind_table.table) = 7
  /\ Len(kind_table.enum_entries) = 4
  /\ kind_table.table[7].kind =
       <<"S", "P", "V", "_", "O", "P", "E", "R", "A", "N", "D", "_", "T", "Y", "P", "E", "_", "O", "P", "T", "I", "O", "N", "A", "L", "_">>
         \o <<"M", "E", "M", "O", "R", "Y", "_", "A", "C", "C", "E", "S", "S">>

\* The extensions the merged grammar names on its instructions and on its
\* enumerants.
GrammarExtensions ==
  UNION {Range(instructions[i].extensions) : i \in DOMAIN instructions}
    \cup UNION {UNION {Range(loaded_kinds[i].enumerants[j].extensions) :
                         j \in DOMAIN loaded_kinds[i].enumerants} :
                  i \in DOMAIN loaded_kinds}

\* A name of the supplementary list is an extension of the merged grammar.
Collides ==
  Range(EXTENSIONS_FROM_SPIRV_REGISTRY_AND_NOT_FROM_GRAMMARS)
    \cap GrammarExtensions # {}

NoOutput == \A o \in Outputs : files[o] = "absent"

\* C9: in main, when a name of the supplementary extension list is also an
\* extension of an instruction or of an enumerant of the merged grammar,
\* generation fails and no output file has been created or written.
C9_CollisionFailsBeforeOutput ==
  Collides => (pc = "failed" /\ NoOutput /\ extensions = <<>>)

\* The collision is on an enumerant, and every output was asked for.
C9_Witness ==
  /\ pc = "failed"
  /\ Collides
  /\ \A i \in DOMAIN instructions : instructions[i].extensions = <<>>
  /\ \A d \in Designators : args[d]
  /\ NoOutput

\* A required field is absent from the merged grammar: the name of an
\* instruction, the name of an operand kind, or the name or the value of
\* an enumerant.
MissingField ==
  \/ \E i \in DOMAIN instructions : instructions[i].opname = None
  \/ \E i \in DOMAIN loaded_kinds :
       \/ loaded_kinds[i].kind = None
       \/ \E j \in DOMAIN loaded_kinds[i].enumerants :
            \/ loaded_kinds[i].enumerants[j].enumerant = None
            \/ loaded_kinds[i].enumerants[j].value = None

\* C10: when a required field is absent from the grammar, generation has
\* failed by the end of main and no output file has been created or
\* written.
C10_MissingFieldNoOutput ==
  (MissingField /\ pc \in {"failed", "done"}) => (pc = "failed" /\ NoOutput)

\* The input designators an output designator goes with.
InputsOf(o) ==
  CASE o = "core_insts_output" ->
         {"spirv_core_grammar", "extinst_debuginfo_grammar",
          "extinst_cldebuginfo100_grammar"}
    [] o = "operand_kinds_output" ->
         {"spirv_core_grammar", "extinst_debuginfo_grammar",
          "extinst_cldebuginfo100_grammar"}
    [] o = "extension_enum_output" ->
         {"spirv_core_grammar", "extinst_debuginfo_grammar",
          "extinst_cldebuginfo100_grammar"}
    [] o = "enum_string_mapping_output" ->
         {"spirv_core_grammar", "extinst_debuginfo_grammar",
          "extinst_cldebuginfo100_grammar"}
    [] o = "glsl_insts_output" -> {"extinst_glsl_grammar"}
    [] o = "opencl_insts_output" -> {"extinst_opencl_grammar"}
    [] o = "vendor_insts_output" -> {"extinst_vendor_grammar"}

\* An output designator is given and one of its input designators is not.
OutputWithoutInput ==
  \E o \in Outputs : args[o] /\ \E i \in InputsOf(o) : ~args[i]

\* C11: when main has completed without failure, the artifact of every
\* output designator that was given has been written; and once validation
\* is over, an output designator given without one of its input
\* designators has been rejected.
C11_RequestedOutputsWritten ==
  /\ pc = "done" => \A o \in Outputs : args[o] => files[o] = "written"
  /\ (pc # "main" /\ OutputWithoutInput) => pc = "rejected"

\* C12: the list get_extension_list returns is in ascending order without
\* duplicates; its names are the extensions of the instructions and of the
\* enumerants, the supplementary names and the reserved name; and the
\* name array and the enum array of the string-to-enum mapping follow the
\* list position by position.
C12_ExtensionListSortedUnion ==
  pc = "extensions_done" =>
    LET mapping == contents.enum_string_mapping_output.string_to_extension
    IN /\ \A i \in 1..(Len(extensions) - 1) :
            StrLess(extensions[i], extensions[i + 1])
       /\ Range(extensions) =
            GrammarExtensions
              \cup Range(EXTENSIONS_FROM_SPIRV_REGISTRY_AND_NOT_FROM_GRAMMARS)
              \cup {SPV_VALIDATOR_ignore_type_decl_unique}
       /\ DOMAIN mapping.known_ext_strs = DOMAIN extensions
       /\ DOMAIN mapping.known_ext_ids = DOMAIN extensions
       /\ \A i \in DOMAIN extensions :
            /\ mapping.known_ext_strs[i] = extensions[i]
            /\ mapping.known_ext_ids[i] = <<"k">> \o extensions[i]

\* The grammar names Z before A on the instruction, and the reserved name
\* and SPV_B on the enumerant: nine names come out, A first and Z last.
C12_Witness ==
  /\ pc = "extensions_done"
  /\ instructions[1].extensions = << <<"Z">>, <<"A">> >>
  /\ loaded_kinds[1].enumerants[1].extensions =
       << SPV_VALIDATOR_ignore_type_decl_unique, <<"S", "P", "V", "_", "B">> >>
  /\ Len(extensions) = 9
  /\ extensions[1] = <<"A">>
  /\ extensions[9] = <<"Z">>
  /\ contents.enum_string_mapping_output.string_to_extension.known_ext_ids[9]
       = <<"k", "Z">>

\* The name a reference has after the step: prefixed when the grammar
\* declares the kind, unchanged otherwise.
PrefixedReference(kind) ==
  IF \E i \in DOMAIN loaded_kinds : loaded_kinds[i].kind = Some(kind)
  THEN CLDEBUG100_ \o kind
  ELSE kind

\* C13: prefix_operand_kind_names prefixes the name of every operand kind
\* the grammar declares and every reference to such a kind, in the
\* operands of the instructions and in the parameters of the enumerants
\* alike, and leaves the references to other kinds as they were.
C13_EveryReferencePrefixed ==
  pc = "prefixed" =>
    /\ \A i \in DOMAIN operand_kinds :
         operand_kinds[i].kind = Some(CLDEBUG100_ \o loaded_kinds[i].kind[1])
    /\ \A i \in DOMAIN inst_table :
         \A j \in DOMAIN inst_table[i].operands :
           inst_table[i].operands[j].kind =
             PrefixedReference(instructions[i].operands[j].kind)
    /\ \A i \in DOMAIN operand_kinds :
         \A j \in DOMAIN operand_kinds[i].enumerants :
           \A k \in DOMAIN operand_kinds[i].enumerants[j].parameters :
             operand_kinds[i].enumerants[j].parameters[k].kind =
               PrefixedReference(loaded_kinds[i].enumerants[j].parameters[k].kind)

\* The operand kinds of the grammar whose category is ValueEnum or BitEnum,
\* in the order of the grammar.
EnumeratedKinds ==
  SelectSeq(operand_kinds, LAMBDA k : k.category \in {"ValueEnum", "BitEnum"})

\* The rendered descriptors `out` are the enumerants `src` in ascending
\* order of the number they denote, those of one number in the order of src.
AscendingStable(src, out) ==
  /\ Len(out) = Len(src)
  /\ \E p \in Permutations(DOMAIN src) :
       /\ \A i \in DOMAIN src :
            /\ out[i].enumerant = src[p[i]].enumerant[1]
            /\ out[i].value = str(src[p[i]].value)
       /\ \A i, k \in DOMAIN src :
            i < k =>
              \/ NumericValue(src[p[i]]) < NumericValue(src[p[k]])
              \/ /\ NumericValue(src[p[i]]) = NumericValue(src[p[k]])
                 /\ p[i] < p[k]

\* C14: the operand-kind table has rows for the operand kinds of category
\* ValueEnum or BitEnum only, and the descriptors of each array it defines
\* are the enumerants of the kind in ascending order of numeric value,
\* enumerants of one value in the order of their declaration.
C14_EnumerantsAscendingStable ==
  (pc = "kinds_done" /\ kind_table.ok) =>
    /\ \A i \in DOMAIN kind_table.table :
         \E j \in DOMAIN EnumeratedKinds :
           kind_table.table[i].entries = EntriesName(EnumeratedKinds[j].kind[1])
    /\ \A j \in DOMAIN EnumeratedKinds :
         \E i \in DOMAIN kind_table.table :
           kind_table.table[i].entries = EntriesName(EnumeratedKinds[j].kind[1])
    /\ \A i \in DOMAIN kind_table.enum_entries :
         \E j \in DOMAIN EnumeratedKinds :
           /\ kind_table.enum_entries[i].name =
                EntriesName(EnumeratedKinds[j].kind[1])
           /\ AscendingStable(EnumeratedKinds[j].enumerants,
                              kind_table.enum_entries[i].entries)

\* The kind K is declared with 0x2, 0x1, 0x01 before the three configured
\* kinds and a kind that is not enumerated is not there: the array of K is
\* defined with b, c, a in this order.
C14_Witness ==
  /\ pc = "kinds_done"
  /\ kind_table.ok
  /\ Len(operand_kinds) = 4
  /\ operand_kinds[1].kind = Some(<<"K">>)
  /\ Len(operand_kinds[1].enumerants) = 3
  /\ operand_kinds[1].enumerants[1].value = Some(StrVal(<<"0", "x", "2">>))
  /\ operand_kinds[1].enumerants[2].value = Some(StrVal(<<"0", "x", "1">>))
  /\ operand_kinds[1].enumerants[3].value = Some(StrVal(<<"0", "x", "0", "1">>))
  /\ Len(kind_table.enum_entries) = 4
  /\ kind_table.enum_entries[1].entries[1].enumerant = <<"b">>
  /\ kind_table.enum_entries[1].entries[2].enumerant = <<"c">>
  /\ kind_table.enum_entries[1].entries[3].enumerant = <<"a">>

\* The pairs of the rename table: those of the first chain and the two
\* floating-point kinds.
RenamePairs ==
  Range(RenameTable)
    \cup { << <<"F", "P", "R", "o", "u", "n", "d", "i", "n", "g", "M", "o", "d", "e">>,
              <<"F", "p", "R", "o", "u", "n", "d", "i", "n", "g", "M", "o", "d", "e">> >>,
           << <<"F", "P", "F", "a", "s", "t", "M", "a", "t", "h", "M", "o", "d", "e">>,
              <<"F", "p", "F", "a", "s", "t", "M", "a", "t", "h", "M", "o", "d", "e">> >> }

\* rename(kind): the name the table gives, the kind itself outside it.
RenameOf(kind) ==
  IF \E r \in RenamePairs : r[1] = kind
  THEN (CHOOSE r \in RenamePairs : r[1] = kind)[2]
  ELSE kind

\* marker(quantifier)
MarkerOf(quantifier) ==
  IF quantifier = <<"?">> THEN <<"O", "p", "t", "i", "o", "n", "a", "l">>
  ELSE IF quantifier = <<"*">> THEN <<"V", "a", "r", "i", "a", "b", "l", "e">>
  ELSE <<>>

\* The places of s where a lower-case letter is followed by an upper-case
\* letter.
Boundaries(s) ==
  {i \in 1..(Len(s) - 1) : IsLower(s[i]) /\ IsUpper(s[i + 1])}

\* t is s in upper case with an underscore put in at every boundary.
IsSeparatedUpper(s, t) ==
  LET at(i) == i + Cardinality({b \in Boundaries(s) : b < i})
  IN /\ Len(t) = Len(s) + Cardinality(Boundaries(s))
     /\ \A i \in DOMAIN s : t[at(i)] = UpperChar(s[i])
     /\ \A b \in Boundaries(s) : t[at(b) + 1] = "_"

\* C15: whatever calls came before, convert_operand_kind has returned,
\* for the kind and the quantifier it was given, SPV_OPERAND_TYPE_ followed
\* by the upper-case, separated form of the marker of the quantifier put
\* before the renamed kind.
C15_ConvertOperandKindTotal ==
  pc = "converted" =>
    /\ operand_type # None
    /\ LET kind == operand_tuple[1][1]
           quantifier == operand_tuple[1][2]
           prefix == <<"S", "P", "V", "_", "O", "P", "E", "R", "A", "N", "D", "_",
                       "T", "Y", "P", "E", "_">>
           result == operand_type[1]
       IN /\ Len(result) >= Len(prefix)
          /\ SubSeq(result, 1, Len(prefix)) = prefix
          /\ IsSeparatedUpper(MarkerOf(quantifier) \o RenameOf(kind),
                              SubSeq(result, Len(prefix) + 1, Len(result)))

\* FPRoundingMode as a variadic operand: SPV_OPERAND_TYPE_VARIABLE_FP_ROUNDING_MODE.
C15_Witness ==
  /\ pc = "converted"
  /\ operand_tuple =
       Some(<< <<"F", "P", "R", "o", "u", "n", "d", "i", "n", "g", "M", "o", "d", "e">>,
               <<"*">> >>)
  /\ operand_type =
       Some(<<"S", "P", "V", "_", "O", "P", "E", "R", "A", "N", "D", "_",
              "T", "Y", "P", "E", "_">>
            \o <<"V", "A", "R", "I", "A", "B", "L", "E", "_", "F", "P", "_",
                 "R", "O", "U", "N", "D", "I", "N", "G", "_", "M", "O", "D", "E">>)

\* The merged grammar of main: the instructions of the core grammar, the
\* instructions and the operand kinds of the three grammars, with their
\* enumerants and the lists of these.
GrammarModel == <<inst_table, instructions, operand_kinds>>

\* C16: a step main takes once precondition_operand_kinds has run (the
\* two core tables, the extension enumeration, the string mappings)
\* leaves the merged grammar as it was.
C16_GrammarReadOnlyAfterPrecondition ==
  [][(pc \in {"core_loaded", "tables_done", "enum_done"})
       => (GrammarModel' = GrammarModel)]_vars

\* All four core artifacts have been written from a grammar whose
\* extension lists precondition_operand_kinds had rewritten.
C16_Witness ==
  /\ pc = "core_done"
  /\ preconditioned
  /\ kind_table.ok
  /\ Len(operand_kinds) = 4
  /\ files.core_insts_output = "written"
  /\ files.operand_kinds_output = "written"
  /\ files.extension_enum_output = "written"
  /\ files.enum_string_mapping_output = "written"
  /\ operand_kinds = precondition_operand_kinds(loaded_kinds).kinds

\* The configured kinds among the tabulated kinds, in their order: the
\* kinds a second row is added for.
AddedKinds ==
  SelectSeq(EnumeratedKinds, LAMBDA k : k.kind[1] \in three_optional_enums)

\* C17: whatever enumerated kinds the grammar holds, the table defines the
\* array of every tabulated kind exactly once; its rows are one mandatory
\* row for every tabulated kind followed by one optional row for every
\* configured kind among them, and no other row is marked optional.
C17_EveryArrayOnceOptionalOnlyAdded ==
  (pc = "kinds_done" /\ kind_table.ok) =>
    /\ \A j \in DOMAIN EnumeratedKinds :
         Cardinality({i \in DOMAIN kind_table.enum_entries :
                        kind_table.enum_entries[i].name =
                          EntriesName(EnumeratedKinds[j].kind[1])}) = 1
    /\ Len(kind_table.table) = Len(EnumeratedKinds) + Len(AddedKinds)
    /\ \A i \in DOMAIN kind_table.table :
         IF i <= Len(EnumeratedKinds)
         THEN kind_table.table[i].kind =
                convert_operand_kind(EnumeratedKinds[i].kind[1], <<>>)
         ELSE kind_table.table[i].kind =
                convert_operand_kind(AddedKinds[i - Len(EnumeratedKinds)].kind[1],
                                     <<"?">>)

\* The reference `name` with the count `count` next to it is the absent
\* reference, or the name of one of the arrays with `count` elements.
Resolves(defined, name, count) ==
  \/ name = <<"n", "u", "l", "l", "p", "t", "r">>
  \/ \E i \in DOMAIN defined :
       /\ defined[i].name = name
       /\ Len(defined[i].elems) = count

\* C18: in the instruction table, in the operand-kind table (whether
\* precondition_operand_kinds has run or not) and in the table of an
\* extended instruction set, every capability-array and extension-array
\* reference of a descriptor that is not the absent reference names an
\* array the same table defines, and the count next to it is the length
\* of an array of that name.  (Whether two arrays of one table can have
\* one name is the matter of C3.)
C18_ReferencesResolve ==
  /\ (pc = "insts_done" /\ core_insts.ok) =>
       \A i \in DOMAIN core_insts.insts :
         /\ Resolves(core_insts.caps_arrays, core_insts.insts[i].caps_mask,
                     core_insts.insts[i].num_caps)
         /\ Resolves(core_insts.exts_arrays, core_insts.insts[i].exts,
                     core_insts.insts[i].num_exts)
  /\ (pc = "kinds_done" /\ kind_table.ok) =>
       \A j \in DOMAIN kind_table.enum_entries :
         \A i \in DOMAIN kind_table.enum_entries[j].entries :
           LET d == kind_table.enum_entries[j].entries[i]
           IN /\ Resolves(kind_table.caps_arrays, d.caps, d.num_caps)
              /\ Resolves(kind_table.exts_arrays, d.exts, d.num_exts)
  /\ pc = "ext_insts_done" =>
       LET table == contents.glsl_insts_output
       IN \A i \in DOMAIN table.insts :
            Resolves(table.caps_arrays, table.insts[i].caps_mask,
                     table.insts[i].num_caps)

\* precondition_operand_kinds has not run; a and b of the kind K have the
\* value 0x1, a with the extension Y and b with X: both descriptors refer
\* to the array of Y and X, which neither enumerant declares.
C18_Witness ==
  /\ pc = "kinds_done"
  /\ ~preconditioned
  /\ kind_table.ok
  /\ Len(operand_kinds) = 4
  /\ Len(operand_kinds[1].enumerants) = 2
  /\ operand_kinds[1].enumerants[1].value = Some(StrVal(<<"0", "x", "1">>))
  /\ operand_kinds[1].enumerants[2].value = Some(StrVal(<<"0", "x", "1">>))
  /\ operand_kinds[1].enumerants[1].extensions = << <<"Y">> >>
  /\ operand_kinds[1].enumerants[2].extensions = << <<"X">> >>
  /\ kind_table.enum_entries[1].entries[1].num_exts = 2
  /\ kind_table.enum_entries[1].entries[1].exts =
       <<"p", "y", "g", "e", "n", "_", "v", "a", "r", "i", "a", "b", "l", "e",
         "_", "e", "x", "t", "s", "_", "Y", "X">>

====
